---- MODULE Spec2Model ----
(***************************************************************************)
(* The lazy batched request queue of chinup: Chinup (a lazy request), the  *)
(* ChinupBar call-issuing surface, the per-scope ChinupQueue and the batch *)
(* transport behind it.                                                    *)
(***************************************************************************)
EXTENDS Integers, Sequences, FiniteSets, TLC

\* ------------------------------------------------------------------ bounds

\* Largest number of Chinup objects alive in the mixed workload.
MaxChinups == 3

\* Largest number of Chinup objects alive in the bulk workload.
MaxBulkChinups == 76

\* Largest number of operations the client code performs in the mixed workload.
MaxOps == 4

\* Largest number of items the remote cursor of the paging workload holds.
MaxItems == 5

\* Largest number of Chinup objects alive in the paging workload.
MaxPagingChinups == 4

\* Largest number of operations the client code performs in the paging
\* workload.
MaxPagingOps == 5

\* Facebook's limit on the requests of one batch (chinups[:50]).
BatchLimit == 50

\* ------------------------------------------------------------------ values

\* Python's None where a string stands for the value.
None == "None"

\* A Chinup's _next_page when there is none (object ids start at 1).
NoChinup == 0

\* A URLObject: a path and its query parameters, in order.
URL(path) == [path |-> path, query |-> << >>]

RECURSIVE ReplaceParam(_, _, _)
ReplaceParam(query, k, v) ==
    IF query = << >> THEN << >>
    ELSE IF Head(query)[1] = k
         THEN << <<k, v>> >> \o Tail(query)
         ELSE << Head(query) >> \o ReplaceParam(Tail(query), k, v)

\* URLObject.set_query_param: replaces the parameter of that name, or adds it.
set_query_param(url, k, v) ==
    IF \E i \in 1..Len(url.query) : url.query[i][1] = k
    THEN [url EXCEPT !.query = ReplaceParam(url.query, k, v)]
    ELSE [url EXCEPT !.query = Append(url.query, <<k, v>>)]

RECURSIVE set_query_params(_, _)
set_query_params(url, items) ==
    IF items = << >> THEN url
    ELSE set_query_params(set_query_param(url, Head(items)[1], Head(items)[2]),
                          Tail(items))

\* The order of the parameter names (Python's string order).
Rank == [a |-> 1, b |-> 2]

\* sorted(data.items()): the items of a dict, by key.
RECURSIVE sorted(_)
sorted(items) ==
    IF items = {} THEN << >>
    ELSE LET first == CHOOSE x \in items :
                          \A y \in items : Rank[x[1]] <= Rank[y[1]]
         IN  << first >> \o sorted(items \ {first})

\* request['data']: None, or a dict given as its set of items.
DataNone == [none |-> TRUE, items |-> {}]
Dict(items) == [none |-> FALSE, items |-> items]

\* self.request['data'] or {}
data_or_empty(data) == IF data.none \/ data.items = {} THEN {} ELSE data.items

\* ---------------------------------------------------------------- Chinup

\* Chinup.__init__: the object a constructor call leaves behind.
NewChinup(method, path, data, token, raise_exceptions, callback, prefetch_next_page) ==
    [ request            |-> [method |-> method, path |-> path, data |-> data],
      token              |-> token,
      raise_exceptions   |-> raise_exceptions,
      callback           |-> callback,
      prefetch_next_page |-> prefetch_next_page,
      response           |-> [kind |-> "None"],
      exception          |-> None,
      next_page          |-> NoChinup ]

\* Chinup.completed: False while the chinup remains to be synced.
completed(c) == c.response.kind # "None" \/ c.exception # None

\* Chinup.completed as compared by __eq__: False, or (response, exception).
completed_value(c) ==
    IF completed(c)
    THEN [done |-> TRUE, response |-> c.response, exception |-> c.exception]
    ELSE [done |-> FALSE, response |-> [kind |-> "None"], exception |-> None]

\* Chinup.make_request_dict: the request of one chinup in a batch.
make_request_dict(c) ==
    LET method0 == c.request.method
        data    == data_or_empty(c.request.data)
        method  == IF method0 = "DEBUG_TOKEN" THEN "GET" ELSE method0
        url1    == IF method0 = "DEBUG_TOKEN"
                   THEN set_query_param(URL("debug_token"), "input_token", c.token)
                   ELSE IF c.token # None
                        THEN set_query_param(c.request.path, "access_token", c.token)
                        ELSE c.request.path
        url2    == IF method # "POST"
                   THEN set_query_params(url1, sorted(data))
                   ELSE url1
    IN  [ method       |-> method,
          relative_url |-> url2,
          body         |-> IF method = "POST" /\ data # {}
                           THEN sorted(data) ELSE << >> ]

\* _make_eq_dict that compares self.request as it was given, not normalized.
make_eq_dict_raw(c) ==
    [ method       |-> c.request.method,
      relative_url |-> c.request.path,
      body         |-> c.request.data,
      token        |-> c.token ]

\* Chinup._make_eq_dict: the request dict __eq__ compares (no files here).
make_eq_dict(c) == make_request_dict(c)

\* Chinup.__eq__(self, other)
Chinup_eq(self, other) ==
    IF make_eq_dict(self) # make_eq_dict(other) THEN FALSE
    ELSE IF self.callback # None
            /\ (self.callback # other.callback
                \/ completed_value(self) # completed_value(other))
         THEN FALSE
    ELSE IF (completed(self) \/ completed(other))
            /\ completed_value(self) # completed_value(other)
         THEN FALSE
    ELSE TRUE

\* ------------------------------------------------------- batch responses

\* The bodies a batch response entry can carry, as (names of) JSON texts.
\*   "page"       {"data": [1]}
\*   "full"       {"data": [1, 2], "paging": {"next": ".../friends?after=2&limit=2"}}
\*   "short"      {"data": [1], "paging": {"next": ".../friends?after=1&limit=2"}}
\*   "bogus"      {"data": [1, 2], "paging": {"next": ".../server.php?limit=2"}}
\*   "badlimit"   {"data": [1, 2], "paging": {"next": ".../friends?after=2&limit=many"}}
\*   "nolimit"    {"data": [1], "paging": {"next": ".../friends?after=1"}}
\*   "page:a:n"   {"data": [a+1, .., a+n], "paging": {"next": ".../friends?after=<a+n>&limit=2"}},
\*                the paging absent when n = 0
\*   "error"      {"error": {...}}
\*   "errorpaged" {"error": {...}, "data": [], "paging": {"next": ".../friends?after=0&limit=2"}}
\*   "true"       true
\*   "garbage"    not JSON
\*   None         no body (a 302 with a Location header)
NextLink(path, after) ==
    [ path  |-> path,
      query |-> << <<"after", after>>, <<"limit", "2">> >> ]

\* A next link that declares another limit, or none.
NextLinkWith(path, after, limit) ==
    [ path  |-> path,
      query |-> IF limit = None THEN << <<"after", after>> >>
                ELSE << <<"after", after>>, <<"limit", limit>> >> ]

Absent == [t |-> "absent"]
List(items) == [t |-> "list", items |-> items]
Scalar == [t |-> "other"]
Link(url) == [t |-> "link", url |-> url]

\* The pages of a cursor: n items that follow item number after.
Pages == [after : 0..MaxItems, len : 0..2]

\* The items of a page.
page_items(p) == [i \in 1..p.len |-> p.after + i]

\* The body of a page, as the remote end writes it.
page_dumps(p) == "page:" \o ToString(p.after) \o ":" \o ToString(p.len)

PageBodies == {page_dumps(p) : p \in Pages}

\* The page a body was written from.
page_loads(body) == CHOOSE p \in Pages : page_dumps(p) = body

\* json.loads of the body of a page.
json_page(p) ==
    [ok |-> TRUE, isdict |-> TRUE, data |-> List(page_items(p)), error |-> FALSE,
     next |-> IF p.len = 0 THEN Absent
              ELSE Link(NextLink("friends", ToString(p.after + p.len))),
     limit |-> None]

\* json.loads(body): a ValueError, or the decoded value.
json_loads(body) ==
    CASE body = "page" ->
           [ok |-> TRUE, isdict |-> TRUE, data |-> List(<<1>>), error |-> FALSE,
            next |-> Absent, limit |-> None]
      [] body = "full" ->
           [ok |-> TRUE, isdict |-> TRUE, data |-> List(<<1, 2>>), error |-> FALSE,
            next |-> Link(NextLink("friends", "2")), limit |-> None]
      [] body = "short" ->
           [ok |-> TRUE, isdict |-> TRUE, data |-> List(<<1>>), error |-> FALSE,
            next |-> Link(NextLink("friends", "1")), limit |-> None]
      [] body = "bogus" ->
           [ok |-> TRUE, isdict |-> TRUE, data |-> List(<<1, 2>>), error |-> FALSE,
            next |-> Link(NextLink("server.php", "2")), limit |-> None]
      [] body = "badlimit" ->
           [ok |-> TRUE, isdict |-> TRUE, data |-> List(<<1, 2>>), error |-> FALSE,
            next |-> Link(NextLinkWith("friends", "2", "many")), limit |-> None]
      [] body = "nolimit" ->
           [ok |-> TRUE, isdict |-> TRUE, data |-> List(<<1>>), error |-> FALSE,
            next |-> Link(NextLinkWith("friends", "1", None)), limit |-> None]
      [] body \in PageBodies -> json_page(page_loads(body))
      [] body = "error" ->
           [ok |-> TRUE, isdict |-> TRUE, data |-> Absent, error |-> TRUE,
            next |-> Absent, limit |-> None]
      [] body = "errorpaged" ->
           [ok |-> TRUE, isdict |-> TRUE, data |-> List(<< >>), error |-> TRUE,
            next |-> Link(NextLink("friends", "0")), limit |-> None]
      [] body = "true" ->
           [ok |-> TRUE, isdict |-> FALSE, data |-> Scalar, error |-> FALSE,
            next |-> Absent, limit |-> None]
      [] OTHER ->
           [ok |-> FALSE, isdict |-> FALSE, data |-> Absent, error |-> FALSE,
            next |-> Absent, limit |-> None]

\* One entry of a batch response, as the transport hands it over: the dict
\* {code, headers, body}. The headers tell one entry from another.
RawResponse(headers, body) ==
    [ kind    |-> "dict",
      headers |-> headers,
      body    |-> body,
      data    |-> Absent,
      error   |-> FALSE,
      next    |-> Absent,
      limit   |-> None ]

\* Lines 99-116 of the response setter: decode the body and promote it.
\* Gives the response dict and the ValueError of a body that does not decode.
decode_and_promote(response) ==
    IF response.kind = "dict" /\ response.body # None
    THEN LET body == json_loads(response.body)
         IN  IF ~body.ok
             THEN [response |-> response, error |-> "ValueError"]
             ELSE IF body.isdict /\ (body.data # Absent \/ body.error)
             THEN [response |-> [response EXCEPT !.data = body.data,
                                                 !.error = body.error,
                                                 !.next = body.next,
                                                 !.limit = body.limit,
                                                 !.body = "absent"],
                   error |-> None]
             ELSE [response |-> [response EXCEPT !.data = body.data,
                                                 !.body = "absent"],
                   error |-> None]
    ELSE [response |-> response, error |-> None]

\* lowlevel.parse_fb_exception: the error of an error envelope, or None.
parse_fb_exception(response) ==
    IF response.kind = "dict" /\ response.error THEN "FacebookError" ELSE None

\* ----------------------------------------------- operations on the world
\* A world is the program's state while one operation runs:
\*   chinups  the Chinup objects, by object id
\*   queue    ChinupQueue.chinups, the ids of the queued chinups in order
\*   batches  lowlevel.batches, the chinups of each physical batch sent
\*   raised   the exception propagating out of the operation, if any
\* srv is what the remote end answers during the operation: whether the
\* physical send fails, and the body of the i-th entry of a batch response.

NoRaise == [type |-> None, chinup |-> NoChinup]
Raise(type, c) == [type |-> type, chinup |-> c]

\* int(limit)
ToInt == [x \in {"1", "2"} |-> IF x = "1" THEN 1 ELSE 2]

\* URLObject.query_dict.get(name)
RECURSIVE query_get(_, _)
query_get(query, k) ==
    IF query = << >> THEN None
    ELSE IF Head(query)[1] = k THEN Head(query)[2]
    ELSE query_get(Tail(query), k)

BodyAt(srv, i) == IF i \in DOMAIN srv.body THEN srv.body[i] ELSE "page"

\* The item a request's cursor stands after: its "after" parameter, or 0.
after_of(request) ==
    IF query_get(request.path.query, "after") = None THEN 0
    ELSE CHOOSE a \in 0..MaxItems :
             ToString(a) = query_get(request.path.query, "after")

\* How many items are left for a page after item number after.
page_len(after, total) ==
    IF total <= after THEN 0 ELSE IF total - after < 2 THEN total - after ELSE 2

\* What the remote end answers to a request when it serves a cursor of
\* srv.total items, two to a page.
CursorBody(request, total) ==
    IF request.path.path = "friends"
    THEN page_dumps([after |-> after_of(request),
                     len |-> page_len(after_of(request), total)])
    ELSE "page"

\* The body of the i-th entry of a batch response, which answers chinup.
BodyFor(srv, chinup, i) ==
    IF "total" \in DOMAIN srv THEN CursorBody(chinup.request, srv.total)
    ELSE BodyAt(srv, i)

\* The exception setter.
set_exception(w, c, value) == [w EXCEPT !.chinups[c].exception = value]

\* The queued chinups that equal the new one, by their place in the queue.
Matches(w, chinup) ==
    {i \in 1..Len(w.queue) : Chinup_eq(w.chinups[w.queue[i]], chinup)}

append_or_return(w, chinup, dedup, matches) ==
    IF dedup /\ matches # {}
    THEN [w |-> w,
          ret |-> w.queue[CHOOSE i \in matches : \A j \in matches : i <= j]]
    ELSE [w |-> [w EXCEPT !.chinups = Append(@, chinup),
                          !.queue = Append(@, Len(w.chinups) + 1)],
          ret |-> Len(w.chinups) + 1]

\* ChinupQueue.append(chinup, dedup): the world after it and the chinup it
\* returns, which is a queued chinup equal to the new one when dedup finds one.
append(w, chinup, dedup) == append_or_return(w, chinup, dedup, Matches(w, chinup))

RECURSIVE Reverse(_)
Reverse(seq) == IF seq = << >> THEN << >> ELSE Append(Reverse(Tail(seq)), Head(seq))

\* prepare_batch that hands the chinups back in another order than it built
\* their requests in.
prepare_batch_reordered(chinups) ==
    [ chinups  |-> Reverse(chinups),
      requests |-> SubSeq(chinups, 1, IF Len(chinups) < BatchLimit
                                      THEN Len(chinups) ELSE BatchLimit) ]

\* prepare_batch that builds the requests of all the chinups it is given.
prepare_batch_unlimited(chinups) ==
    [ chinups  |-> chinups,
      requests |-> chinups ]

\* Chinup.prepare_batch(chinups): the chinups, and the chinups among them
\* whose request dicts make up the batch (make_request_dict of the first 50).
prepare_batch(chinups) ==
    [ chinups  |-> chinups,
      requests |-> SubSeq(chinups, 1, IF Len(chinups) < BatchLimit
                                      THEN Len(chinups) ELSE BatchLimit) ]

\* The chinup _get_next_page constructs for next_link.
next_chinup(self, next_link) ==
    NewChinup(self.request.method, next_link, DataNone, None,
              self.raise_exceptions, self.callback, self.prefetch_next_page)

\* _get_next_page that queues the chinup itself again for its next page.
get_next_page_requeued(w, c, next_link) ==
    [w |-> [w EXCEPT !.queue = Append(@, c)], ret |-> c]

\* _get_next_page that constructs the next page's chinup and queues nothing.
get_next_page_unqueued(w, c, next_link) ==
    [w   |-> [w EXCEPT !.chinups = Append(@, next_chinup(w.chinups[c], next_link))],
     ret |-> Len(w.chinups) + 1]

\* Chinup._get_next_page(next_link): the next page's chinup, queued.
get_next_page(w, c, next_link) ==
    append(w, next_chinup(w.chinups[c], next_link), TRUE)

\* The chinup a chaining callback constructs.
chained_chinup(self) ==
    NewChinup("GET", URL("report"), DataNone, self.token, self.raise_exceptions,
              None, FALSE)

\* A callback that chains a follow-up request on the chinup's queue.
chain_callback(w, c) == append(w, chained_chinup(w.chinups[c]), TRUE).w

RECURSIVE sync(_, _, _)

\* _sync that never asks the queue for anything.
Chinup_sync_never(w, c, srv) == w

\* Chinup._sync
Chinup_sync(w, c, srv) ==
    IF w.raised # NoRaise \/ completed(w.chinups[c]) THEN w ELSE sync(w, c, srv)

\* raise self.exception, if there is one
raise_exception(w, c) ==
    IF w.raised = NoRaise /\ w.chinups[c].exception # None
    THEN [w EXCEPT !.raised = Raise(w.chinups[c].exception, c)]
    ELSE w

\* Chinup._maybe_raise_exception (reading self.exception syncs)
maybe_raise_exception(w, c, srv) ==
    IF w.raised # NoRaise \/ ~w.chinups[c].raise_exceptions THEN w
    ELSE raise_exception(Chinup_sync(w, c, srv), c)

\* self.response.get(name), once isinstance(self.response, dict) was read
response_get_name(w, c, srv) ==
    IF w.raised = NoRaise /\ w.chinups[c].response.kind = "dict"
    THEN Chinup_sync(w, c, srv)
    ELSE w

\* Chinup._response_get(name): the world after the read.
response_get(w, c, srv) ==
    response_get_name(Chinup_sync(maybe_raise_exception(w, c, srv), c, srv), c, srv)

\* What self.data is once response_get has run without raising.
data_of(chinup) ==
    IF chinup.response.kind = "dict" THEN chinup.response.data ELSE Absent

\* self.response.get('limit') or URL(next_link).query_dict.get('limit')
limit_of(response) ==
    IF response.limit # None THEN response.limit
    ELSE query_get(response.next.url.query, "limit")

\* self._next_page = self._get_next_page(next_link)
store_next_page(got, c) == [got.w EXCEPT !.chinups[c].next_page = got.ret]

fetch_page(w, c) ==
    store_next_page(get_next_page(w, c, w.chinups[c].response.next.url), c)

\* if limit and len(self.data) < int(limit): return, once self.data was read
fetch_unless_short(w, c, limit) ==
    IF w.raised # NoRaise THEN w
    ELSE IF data_of(w.chinups[c]).t # "list"
    THEN [w EXCEPT !.raised = Raise("TypeError", c)]
    ELSE IF limit \notin DOMAIN ToInt
    THEN [w EXCEPT !.raised = Raise("ValueError", c)]
    ELSE IF Len(data_of(w.chinups[c]).items) < ToInt[limit] THEN w
    ELSE fetch_page(w, c)

fetch_within_limit(w, c, srv, limit) ==
    IF limit = None THEN fetch_page(w, c)
    ELSE fetch_unless_short(response_get(w, c, srv), c, limit)

\* fetch_next_page that follows whatever next link the response has.
fetch_next_link_any(w, c, srv) ==
    IF w.raised # NoRaise \/ w.chinups[c].response.kind # "dict" THEN w
    ELSE IF w.chinups[c].response.next = Absent THEN w
    ELSE fetch_within_limit(w, c, srv, limit_of(w.chinups[c].response))

\* Chinup.fetch_next_page, once self.response was read
fetch_next_link(w, c, srv) ==
    IF w.raised # NoRaise \/ w.chinups[c].response.kind # "dict" THEN w
    ELSE IF w.chinups[c].response.next = Absent THEN w
    ELSE IF w.chinups[c].response.next.url.path = "server.php" THEN w
    ELSE fetch_within_limit(w, c, srv, limit_of(w.chinups[c].response))

\* fetch_next_page that asks for the next page again although the chinup
\* has it.
fetch_next_page_uncached(w, c, srv) ==
    IF w.raised # NoRaise THEN w
    ELSE fetch_next_link(Chinup_sync(w, c, srv), c, srv)

\* Chinup.fetch_next_page
fetch_next_page(w, c, srv) ==
    IF w.raised # NoRaise \/ w.chinups[c].next_page # NoChinup THEN w
    ELSE fetch_next_link(Chinup_sync(w, c, srv), c, srv)

\* Lines 97-116 of the response setter: store the response, and the
\* ValueError of its body unless the chinup has an exception already.
store_response(w, c, dp) ==
    IF dp.error # None /\ w.chinups[c].exception = None
    THEN [w EXCEPT !.chinups[c].response = dp.response,
                   !.chinups[c].exception = dp.error]
    ELSE [w EXCEPT !.chinups[c].response = dp.response]

\* Lines 118-120: keep parity with facepy exceptions.
store_fb_exception(w, c) ==
    IF w.chinups[c].exception = None
    THEN set_exception(w, c, parse_fb_exception(w.chinups[c].response))
    ELSE w

\* Lines 122-126: call the callback.
call_callback(w, c) ==
    IF w.chinups[c].callback # None THEN chain_callback(w, c) ELSE w

\* Lines 128-130: prepare to fetch the next page.
prefetch(w, c, srv) ==
    IF w.chinups[c].prefetch_next_page THEN fetch_next_page(w, c, srv) ELSE w

\* The response setter.
set_response(w, c, response, srv) ==
    IF w.raised # NoRaise THEN w
    ELSE prefetch(
             call_callback(
                 store_fb_exception(
                     store_response(w, c, decode_and_promote(response)), c), c),
             c, srv)

\* The batch's responses, handed to the chinups one to one and in order.
RECURSIVE apply_responses(_, _, _, _, _)
apply_responses(w, chinups, n, i, srv) ==
    IF i > n \/ i > Len(chinups) \/ w.raised # NoRaise THEN w
    ELSE apply_responses(
             set_response(w, chinups[i],
                          RawResponse(<<Len(w.batches), i>>,
                                      BodyFor(srv, w.chinups[chinups[i]], i)), srv),
             chinups, n, i + 1, srv)

\* A failed physical send: the same error on every chinup of the batch.
RECURSIVE apply_exception(_, _, _, _)
apply_exception(w, chinups, n, i) ==
    IF i > n \/ i > Len(chinups) THEN w
    ELSE apply_exception(set_exception(w, chinups[i], "TransportError"),
                         chinups, n, i + 1)

\* The queued chinups that remain to be synced.
pending_of(w) == SelectSeq(w.queue, LAMBDA c : ~completed(w.chinups[c]))

\* The queue gives up the chinups of the batch and keeps the later ones.
take_batch(w, batch) ==
    [w EXCEPT !.queue = SubSeq(batch.chinups, Len(batch.requests) + 1,
                               Len(batch.chinups)),
              !.batches = IF Len(batch.requests) = 0 THEN @
                          ELSE Append(@, batch.requests)]

send_batch(w, batch, srv) ==
    IF Len(batch.requests) = 0 THEN take_batch(w, batch)
    ELSE IF srv.fail
    THEN apply_exception(take_batch(w, batch), batch.chinups,
                         Len(batch.requests), 1)
    ELSE apply_responses(take_batch(w, batch), batch.chinups,
                         Len(batch.requests), 1, srv)

\* ChinupQueue.sync(target)
sync(w, target, srv) ==
    IF w.raised # NoRaise \/ completed(w.chinups[target]) THEN w
    ELSE send_batch(w, prepare_batch(pending_of(w)), srv)

\* A chinup without its callback, when it is completed (__getstate__).
drop_callback(w, c) ==
    IF w.chinups[c].callback # None /\ completed(w.chinups[c])
    THEN [w EXCEPT !.chinups[c].callback = None] ELSE w

\* Chinup.__getstate__ down the chain of next pages: a completed chinup
\* drops its callback, a chinup that still has one cannot be pickled.
RECURSIVE getstate(_, _, _)
getstate(w, c, chain) ==
    IF c = NoChinup \/ w.raised # NoRaise THEN [w |-> w, chain |-> chain]
    ELSE IF w.chinups[c].callback # None /\ ~completed(w.chinups[c])
    THEN [w |-> [w EXCEPT !.raised = Raise("AssertionError", c)], chain |-> chain]
    ELSE getstate(drop_callback(w, c), w.chinups[c].next_page, Append(chain, c))

\* The copy of the i-th chinup of the chain; the copy of its next page is
\* the object made just before it.
copy_of(w, chain, i) ==
    [w.chinups[chain[i]] EXCEPT
        !.next_page = IF i = Len(chain) THEN NoChinup ELSE Len(w.chinups)]

\* Chinup.__setstate__ on the copies, innermost first: each copy goes back
\* on the queue, without dedup.
RECURSIVE setstate(_, _, _)
setstate(w, chain, i) ==
    IF i = 0 THEN w
    ELSE setstate(append(w, copy_of(w, chain, i), FALSE).w, chain, i - 1)

setstate_all(got) ==
    IF got.w.raised # NoRaise THEN got.w
    ELSE setstate(got.w, got.chain, Len(got.chain))

\* pickle.loads(pickle.dumps(chinup))
unpickle(w, c) == setstate_all(getstate(w, c, << >>))

\* Chinup.next_page(): the world after it and the chinup it returns.
next_page(w, c, srv) ==
    [w |-> fetch_next_page(w, c, srv), ret |-> fetch_next_page(w, c, srv).chinups[c].next_page]

\* Lines 229-233 of __iter__: the data of a page is no list.
store_paging_error(w, self) ==
    IF w.raised = NoRaise /\ w.chinups[self].exception = None
    THEN raise_exception(set_exception(w, self, "PagingError"), self)
    ELSE w

paging_error(w, self, srv) ==
    IF w.chinups[self].exception # None THEN w
    ELSE IF ~w.chinups[self].raise_exceptions
    THEN set_exception(Chinup_sync(w, self, srv), self, "PagingError")
    ELSE store_paging_error(Chinup_sync(w, self, srv), self)

\* What a generator has done when it stops: the world it leaves, and the
\* items it has yielded.
Yielded(w, items) == [w |-> w, items |-> items]

RECURSIVE iter(_, _, _, _, _)

\* chinup = chinup.next_page(), once next_page has run, and round the loop
iter_next(w, self, c, items, srv) ==
    IF w.raised # NoRaise THEN Yielded(w, items)
    ELSE iter(w, self, w.chinups[c].next_page, items, srv)

\* A turn of the loop that goes to the next page the chinup already has
\* and never asks for one.
iter_page_unfetched(w, self, c, items, srv) ==
    IF w.raised # NoRaise THEN Yielded(w, items)
    ELSE IF data_of(w.chinups[c]).t # "list"
    THEN Yielded(paging_error(w, self, srv), items)
    ELSE iter_next(w, self, c, items \o data_of(w.chinups[c]).items, srv)

\* One turn of the loop of __iter__, once chinup.data was read.
iter_page(w, self, c, items, srv) ==
    IF w.raised # NoRaise THEN Yielded(w, items)
    ELSE IF data_of(w.chinups[c]).t # "list"
    THEN Yielded(paging_error(w, self, srv), items)
    ELSE iter_next(fetch_next_page(w, c, srv), self, c,
                   items \o data_of(w.chinups[c]).items, srv)

\* Chinup.__iter__, run to its end as list(chinup) runs it: the loop from
\* chinup c on.
iter(w, self, c, items, srv) ==
    IF c = NoChinup THEN Yielded(w, items)
    ELSE iter_page(response_get(w, c, srv), self, c, items, srv)

\* ------------------------------------------------------------------ state

VARIABLES
    workload,   \* "mixed", "bulk" or "paging": what the client code does
    chinups,    \* the Chinup objects, by object id
    queue,      \* ChinupQueue.chinups
    batches,    \* lowlevel.batches
    op,         \* the operation that ran last
    target,     \* the chinup it ran on, if it ran on one
    returned,   \* the chinup the last operation returned, if it returns one
    raised,     \* the exception the last operation raised, if it raised
    ops,        \* the operations performed so far in the mixed workload
    total,      \* the items of the remote cursor of the paging workload
    yielded,    \* the items the last operation yielded, if it iterates
    passes      \* how many iterations of target the client has run in a
                \* row, the earlier one to its end: 0, 1 or 2 (2 or more)

vars == <<workload, chinups, queue, batches, op, target, returned, raised, ops,
          total, yielded, passes>>

World == [chinups |-> chinups, queue |-> queue, batches |-> batches,
          raised |-> NoRaise]

NoSrv == [fail |-> FALSE, body |-> << >>]

Ids == 1..Len(chinups)

\* The chinups client code reads: any of them in the mixed workload, the
\* first or the last one in the bulk workload.
Readable == IF workload = "bulk" THEN Ids \cap {1, Len(chinups)} ELSE Ids

Room ==
    CASE workload = "mixed" -> MaxChinups
      [] workload = "paging" -> MaxPagingChinups
      [] OTHER -> MaxBulkChinups

\* Operation name on chinup c leaves world w behind, returns ret and has
\* yielded items.
Yields(name, c, w, ret, items) ==
    /\ workload = "mixed" => ops < MaxOps
    /\ workload = "paging" => ops < MaxPagingOps
    /\ Len(w.chinups) <= Room
    /\ chinups' = w.chinups
    /\ queue' = w.queue
    /\ batches' = w.batches
    /\ op' = name
    /\ target' = c
    /\ returned' = ret
    /\ raised' = w.raised
    /\ yielded' = items
    /\ passes' = IF name # "iter" THEN 0
                 ELSE IF op = "iter" /\ target = c /\ raised = NoRaise THEN 2
                 ELSE 1
    /\ ops' = IF workload = "bulk" THEN ops ELSE ops + 1
    /\ UNCHANGED <<workload, total>>

\* Operation name on chinup c leaves world w behind and returns ret.
Becomes(name, c, w, ret) == Yields(name, c, w, ret, << >>)

\* The chinups the mixed workload constructs.
Requests ==
    { NewChinup("GET", URL("me"), DataNone, "tok", TRUE, None, TRUE),
      NewChinup("GET", URL("me"), Dict({}), "tok", FALSE, None, TRUE),
      NewChinup("GET", URL("me"), DataNone, "tok", TRUE, "chain", FALSE),
      NewChinup("POST", URL("feed"), Dict({<<"b", "1">>, <<"a", "1">>}), "tok",
                TRUE, None, FALSE) }

\* The bodies the remote end answers with in the mixed workload.
Bodies == {"page", "full", "errorpaged", "garbage"}

\* The bodies client code hands to the response setter itself.
SetBodies == {"page", "error"}

\* The chinups the paging workload constructs: the first page of the
\* cursor, asked for with and without prefetch of the next page.
PagingRequests ==
    { NewChinup("GET", URL("friends"), DataNone, "tok", TRUE, None, TRUE),
      NewChinup("GET", URL("friends"), DataNone, "tok", FALSE, None, FALSE) }

\* The bodies client code hands to the response setter in the paging
\* workload.
PagingSetBodies == {"bogus", "badlimit", "nolimit"}

\* The chinups the next physical batch would carry.
Pending == SelectSeq(queue, LAMBDA q : ~completed(chinups[q]))

\* What the remote end may answer while chinup c is read.
Answers(c) ==
    LET n == IF Len(Pending) < BatchLimit THEN Len(Pending) ELSE BatchLimit
    IN  IF workload = "paging"
        THEN {[fail |-> FALSE, body |-> << >>, total |-> total]}
        ELSE IF completed(chinups[c]) \/ n = 0 THEN {NoSrv}
        ELSE IF workload = "bulk" THEN {NoSrv}
        ELSE {[fail |-> TRUE, body |-> << >>]}
             \cup {[fail |-> FALSE, body |-> b] : b \in [1..n -> Bodies]}

Init ==
    /\ workload \in {"mixed", "bulk", "paging"}
    /\ total \in IF workload = "paging" THEN 0..MaxItems ELSE {0}
    /\ yielded = << >>
    /\ passes = 0
    /\ chinups = << >>
    /\ queue = << >>
    /\ batches = << >>
    /\ op = "init"
    /\ target = NoChinup
    /\ returned = NoChinup
    /\ raised = NoRaise
    /\ ops = 0

\* Client code constructs a Chinup and appends it to the queue.
Returns(name, got) == Becomes(name, NoChinup, got.w, got.ret)

IssueOf(chinup) == Returns("append", append(World, chinup, TRUE))

Issue ==
    /\ workload = "mixed"
    /\ \E chinup \in Requests : IssueOf(chinup)

\* The bulk workload queues deferred GETs, each of another object, and then
\* reads them.
BulkRequest ==
    NewChinup("GET", set_query_param(URL("object"), "id", Len(chinups) + 1),
              DataNone, None, Len(chinups) % 2 = 0, None, FALSE)

IssueBulk ==
    /\ workload = "bulk"
    /\ batches = << >>
    /\ IssueOf(BulkRequest)

\* The kwargs Chinup.__init__ requires.
RequiredKwargs == {"token", "raise_exceptions", "callback", "prefetch_next_page"}

\* The kwargs ChinupBar._query hands to the chinup class, besides queue,
\* method, path and data.
QueryKwargs == {"token", "raise_exceptions", "prefetch_next_page"}

\* Chinup.__init__: ValueError on missing or extra kwargs.
init_raises(kwargs) == kwargs # RequiredKwargs

\* if self.raise_exceptions and chinup.exception: raise chinup.exception
query_raise(w, c) == raise_exception(w, c)

\* if not defer: queue.sync(chinup), and raise its exception
query_sync(got, defer, srv) ==
    IF defer THEN got
    ELSE [w |-> query_raise(sync(got.w, got.ret, srv), got.ret), ret |-> got.ret]

\* ChinupBar._query(method, path, data, defer) of a ChinupBar with the
\* defaults raise_exceptions=True and prefetch_next_page=True.
ChinupBar_query(w, method, path, data, defer, srv) ==
    IF init_raises(QueryKwargs)
    THEN [w |-> [w EXCEPT !.raised = Raise("ValueError", NoChinup)], ret |-> NoChinup]
    ELSE query_sync(append(w, NewChinup(method, path, data, "tok", TRUE, None, TRUE),
                           TRUE),
                    defer, srv)

\* ChinupBar.get(path): defer=True
ChinupBar_get ==
    /\ workload = "mixed"
    /\ Returns("get", ChinupBar_query(World, "GET", URL("me"), DataNone, TRUE, NoSrv))

\* ChinupBar.post(path, data): defer=False
ChinupBar_post ==
    /\ workload = "mixed"
    /\ \E fail \in BOOLEAN :
          Returns("post", ChinupBar_query(World, "POST", URL("feed"),
                                          Dict({<<"a", "1">>}), FALSE,
                                          [fail |-> fail, body |-> << >>]))

\* chinup.data
ReadDataOf(c, srv) ==
    Becomes("data", c, response_get(World, c, srv), NoChinup)

ReadData == \E c \in Readable : \E srv \in Answers(c) : ReadDataOf(c, srv)

\* chinup.response
ReadResponseOf(c, srv) ==
    Becomes("response", c, Chinup_sync(World, c, srv), NoChinup)

ReadResponse ==
    /\ workload # "paging"
    /\ \E c \in Readable : \E srv \in Answers(c) : ReadResponseOf(c, srv)

\* chinup.cancel()
CancelOf(c) ==
    Becomes("cancel", c, set_exception(World, c, "ChinupCanceled"), NoChinup)

Cancel ==
    /\ workload = "mixed"
    /\ \E c \in Ids : CancelOf(c)

\* chinup.response = response, by whoever holds the chinup.
SetResponseOf(c, body) ==
    Becomes("set_response", c,
            set_response(World, c, RawResponse(<<0, c>>, body), NoSrv), NoChinup)

SetResponse ==
    \/ /\ workload = "mixed"
       /\ \E c \in Ids : \E body \in SetBodies : SetResponseOf(c, body)
    \/ /\ workload = "paging"
       /\ \E c \in Ids : \E body \in PagingSetBodies : SetResponseOf(c, body)

\* pickle.loads(pickle.dumps(chinup))
UnpickleOf(c) == Becomes("unpickle", c, unpickle(World, c), NoChinup)

Unpickle ==
    /\ workload = "mixed"
    /\ \E c \in Ids : UnpickleOf(c)

\* The paging workload asks for the first page of the cursor.
IssuePaging ==
    /\ workload = "paging"
    /\ \E chinup \in PagingRequests : IssueOf(chinup)

\* chinup.next_page(), which is fetch_next_page() and the read of _next_page
NextPageOf(c, got) == Becomes("next_page", c, got.w, got.ret)

NextPage ==
    /\ workload = "paging"
    /\ \E c \in Ids : \E srv \in Answers(c) : NextPageOf(c, next_page(World, c, srv))

\* list(chinup)
IterateOf(c, got) == Yields("iter", c, got.w, NoChinup, got.items)

Iterate ==
    /\ workload = "paging"
    /\ \E c \in Ids : \E srv \in Answers(c) :
          IterateOf(c, iter(World, c, c, << >>, srv))

Next ==
    \/ Issue
    \/ IssueBulk
    \/ ChinupBar_get
    \/ ChinupBar_post
    \/ ReadData
    \/ ReadResponse
    \/ Cancel
    \/ SetResponse
    \/ Unpickle
    \/ IssuePaging
    \/ NextPage
    \/ Iterate

Spec == Init /\ [][Next]_vars

\* ----------------------------------------------------------------- claims

\* Two chinups whose normalized request descriptors are equal.
RequestEqual(a, b) == make_request_dict(a) = make_request_dict(b)

\* The queued chinups with the request of chinup b, by place in the queue.
SameRequest(chs, q, b) == {i \in 1..Len(q) : RequestEqual(chs[q[i]], b)}

\* The i-th queued chinup is unresolved and has b's request and b's callback.
DedupCandidate(i, b) ==
    /\ ~completed(chinups[queue[i]])
    /\ RequestEqual(chinups[queue[i]], b)
    /\ chinups[queue[i]].callback = b.callback

IsResult(response, b, i) ==
    \E body \in Bodies \cup {"page"} \cup PageBodies :
        response = decode_and_promote(RawResponse(<<b, i>>, body)).response

\* C2: for every physical batch a step sends, entry i of the batch's response
\* is stored on the chinup whose request was the i-th of the batch and on no
\* other chinup, and when the operation returns every chinup of the batch has
\* its entry (or, the send having failed, none has one).
C2_Ordering ==
    [][\A b \in (Len(batches) + 1)..Len(batches') :
        /\ \A i \in 1..Len(batches'[b]) :
              /\ chinups'[batches'[b][i]].response.kind = "dict" =>
                    IsResult(chinups'[batches'[b][i]].response, b, i)
              /\ \A c \in 1..Len(chinups') :
                    (/\ chinups'[c].response.kind = "dict"
                     /\ chinups'[c].response.headers = <<b, i>>) => c = batches'[b][i]
        /\ raised' = NoRaise =>
              \/ \A i \in 1..Len(batches'[b]) :
                    chinups'[batches'[b][i]].response.kind = "dict"
              \/ \A i \in 1..Len(batches'[b]) :
                    /\ chinups'[batches'[b][i]].response.kind = "None"
                    /\ chinups'[batches'[b][i]].exception = "TransportError"]_vars

\* C2's case: a read has returned after a batch of three chinups, not all of
\* one request, and each holds its own entry of the response.
C2_Witness ==
    /\ op = "data"
    /\ raised = NoRaise
    /\ Len(batches) = 1
    /\ Len(batches[1]) = 3
    /\ ~RequestEqual(chinups[batches[1][1]], chinups[batches[1][3]])
    /\ \A i \in 1..3 : IsResult(chinups[batches[1][i]].response, 1, i)

\* The target of the step is queued and unresolved before the step.
TargetPending == \E i \in 1..Len(Pending) : Pending[i] = target'

\* C3 as stated: whenever .data is read on one of M >= 1 queued, unresolved
\* chinups and the read returns, all M are resolved and one physical batch
\* has been sent.
C3_FlushAll ==
    [][(op' = "data" /\ raised' = NoRaise /\ TargetPending) =>
        /\ \A i \in 1..Len(Pending) : completed(chinups'[Pending[i]])
        /\ Len(batches') = Len(batches) + 1]_vars

\* C3, amended: whenever .data is read on one of M queued, unresolved
\* chinups, 1 <= M <= 50, and the read returns, all M are resolved and one
\* physical batch has been sent, which carries the M chinups in queue order.
C3_FlushUpToLimit ==
    [][(op' = "data" /\ raised' = NoRaise /\ TargetPending
                     /\ Len(Pending) <= BatchLimit) =>
        /\ \A i \in 1..Len(Pending) : completed(chinups'[Pending[i]])
        /\ batches' = Append(batches, Pending)]_vars

\* C3's case: reading .data on the last of 50 queued chinups has returned,
\* the 50 are resolved and one batch has carried them all.
C3_Witness ==
    /\ workload = "bulk"
    /\ op = "data"
    /\ target = BatchLimit
    /\ raised = NoRaise
    /\ Len(chinups) = BatchLimit
    /\ batches = << [i \in 1..BatchLimit |-> i] >>
    /\ \A c \in Ids : completed(chinups[c])

\* The batches sent by a step, one after the other.
RECURSIVE Sent(_, _)
Sent(bs, from) == IF from > Len(bs) THEN << >> ELSE bs[from] \o Sent(bs, from + 1)

Range(seq) == {seq[i] : i \in 1..Len(seq)}

NewlySent == Sent(batches', Len(batches) + 1)
SentOfPending == SelectSeq(NewlySent, LAMBDA c : c \in Range(Pending))

\* The places a chinup has in the physical batches.
PlacesOf(bs, c) == {<<b, i>> \in (1..Len(bs)) \X (1..BatchLimit) :
                       i <= Len(bs[b]) /\ bs[b][i] = c}

\* C4: no physical batch carries more than 50 requests and no chinup is in
\* two batches or twice in one; the chinups a step sends are the first of
\* the queued, unresolved chinups in queue order, and the others stay
\* queued in their order for a later sync (an iteration, which constructs
\* chinups between its syncs, is held to the ceiling and to the single send).
C4_BatchCeiling ==
    [][/\ \A b \in 1..Len(batches') : Len(batches'[b]) <= BatchLimit
       /\ \A c \in 1..Len(chinups') : Cardinality(PlacesOf(batches', c)) <= 1
       /\ (batches' # batches /\ op' # "iter") =>
            /\ SentOfPending = SubSeq(Pending, 1, Len(SentOfPending))
            /\ Len(batches'[Len(batches) + 1]) =
                 (IF Len(Pending) < BatchLimit THEN Len(Pending) ELSE BatchLimit)
            /\ SelectSeq(queue', LAMBDA c : c \in Range(Pending))
                 = SubSeq(Pending, Len(SentOfPending) + 1, Len(Pending))]_vars

\* C4's case: 75 chinups were queued and two batches have been sent, the
\* first with chinups 1 to 50 and the second with chinups 51 to 75.
C4_Witness ==
    /\ workload = "bulk"
    /\ Len(chinups) = 75
    /\ queue = << >>
    /\ batches = << [i \in 1..50 |-> i], [i \in 1..25 |-> 50 + i] >>
    /\ \A c \in Ids : completed(chinups[c])

\* The chinups that have been sent in some physical batch.
SentChinups == UNION {Range(batches[b]) : b \in 1..Len(batches)}

\* No chinup is in two physical batches, or twice in one.
SentOnce == \A c \in Ids : Cardinality(PlacesOf(batches, c)) <= 1

\* C5 as stated: in every reachable state every queued chinup is unresolved,
\* no queued chinup has been sent, and no chinup is in two physical batches.
C5_QueuedUnresolved ==
    /\ \A i \in 1..Len(queue) : ~completed(chinups[queue[i]])
    /\ \A i \in 1..Len(queue) : queue[i] \notin SentChinups
    /\ SentOnce

\* C5, amended: in every reachable state no queued chinup has been sent (a
\* chinup leaves the queue when it is sent) and no chinup is in two physical
\* batches; a queued chinup can be resolved, by cancel, by an assignment to
\* .response or by unpickling a resolved chinup.
C5_QueuedUnsent ==
    /\ \A i \in 1..Len(queue) : queue[i] \notin SentChinups
    /\ SentOnce

\* C5's case: a batch has been sent, and the queue holds a resolved chinup
\* next to an unresolved one.
C5_Witness ==
    /\ batches # << >>
    /\ \E i \in 1..Len(queue) : completed(chinups[queue[i]])
    /\ \E i \in 1..Len(queue) : ~completed(chinups[queue[i]])

\* C6 as stated: once a chinup is resolved, no step changes its stored
\* response or its stored error.
C6_TerminalResolution ==
    [][\A c \in Ids : completed(chinups[c]) =>
        /\ chinups'[c].response = chinups[c].response
        /\ chinups'[c].exception = chinups[c].exception]_vars

\* C7 as stated: an assignment to .response and a read that only syncs never
\* raise; a read of .data raises exactly when the chinup has raise_exceptions
\* and a stored error, and what it raises is that chinup's stored error.
C7_LazyRaise ==
    [][/\ op' \in {"set_response", "response"} => raised' = NoRaise
       /\ op' = "data" =>
            /\ raised' # NoRaise <=>
                 (/\ chinups'[target'].raise_exceptions
                  /\ chinups'[target'].exception # None)
            /\ raised' # NoRaise =>
                 raised' = Raise(chinups'[target'].exception, target')]_vars

\* C8 as stated: no step replaces the stored error of a chinup that has one.
C8_FirstErrorWins ==
    [][\A c \in Ids : chinups[c].exception # None =>
        chinups'[c].exception = chinups[c].exception]_vars

\* The error a resolved chinup has of its own response: the ValueError of a
\* body that did not decode, the error of an error envelope, or none.
ErrorOf(response) ==
    IF response.body # "absent" THEN "ValueError"
    ELSE parse_fb_exception(response)

\* C9 as stated: for every physical batch a step sends, either the send
\* failed, and then every chinup of the batch has a TransportError and no
\* chinup outside the batch has got one, or every chinup of the batch is
\* resolved with the error of its own result and with no other error.
C9_ErrorIsolation ==
    [][\A b \in (Len(batches) + 1)..Len(batches') :
        IF \E i \in 1..Len(batches'[b]) :
               chinups'[batches'[b][i]].exception = "TransportError"
        THEN /\ \A i \in 1..Len(batches'[b]) :
                   chinups'[batches'[b][i]].exception = "TransportError"
             /\ \A c \in Ids : c \notin Range(NewlySent) =>
                   chinups'[c].exception = chinups[c].exception
        ELSE \A i \in 1..Len(batches'[b]) :
                 /\ IsResult(chinups'[batches'[b][i]].response, b, i)
                 /\ chinups'[batches'[b][i]].exception
                      = ErrorOf(chinups'[batches'[b][i]].response)]_vars

\* The batch a chinup was sent in, or 0.
BatchOf(bs, c) ==
    IF \E b \in 1..Len(bs) : c \in Range(bs[b])
    THEN CHOOSE b \in 1..Len(bs) : c \in Range(bs[b])
    ELSE 0

\* C10: a chinup made while a step processes the results of a batch is not
\* in that batch, and it stays queued and unresolved unless a later sync of
\* the step sends it in a later batch; a next page is never in the batch of
\* the chinup it continues, nor in an earlier one.
C10_SnapshotThenClear ==
    [][/\ op' \in {"data", "response"} /\ batches' # batches =>
            \A n \in (Len(chinups) + 1)..Len(chinups') :
                /\ n \notin Range(batches'[Len(batches) + 1])
                /\ n \notin Range(NewlySent) =>
                     /\ n \in Range(queue')
                     /\ ~completed(chinups'[n])
       /\ \A c \in 1..Len(chinups') :
            (/\ chinups'[c].next_page # NoChinup
             /\ BatchOf(batches', c) # 0
             /\ BatchOf(batches', chinups'[c].next_page) # 0) =>
                BatchOf(batches', c) < BatchOf(batches', chinups'[c].next_page)]_vars

\* C10's case: a read has sent a batch, a chinup of the batch has got a next
\* page while its result was processed, and the next page is queued,
\* unresolved and unsent.
C10_Witness ==
    /\ op = "data"
    /\ batches # << >>
    /\ \E c \in Range(batches[Len(batches)]) :
          /\ c # Len(chinups)
          /\ chinups[c].next_page = Len(chinups)
          /\ Len(chinups) \in Range(queue)
          /\ Len(chinups) \notin SentChinups
          /\ ~completed(chinups[Len(chinups)])

\* C11 as stated: whenever a read of .response or .exception on a chinup
\* returns, the chinup is resolved, wherever it was in the queue.
C11_ReadResolves ==
    [][(op' = "response" /\ raised' = NoRaise) => completed(chinups'[target'])]_vars

\* C12 as stated: ChinupBar.get with its default defer=True returns a
\* chinup that is unresolved and queued, and sends no batch; the batches
\* sent change only when a result is read or a call is issued with
\* defer=False.
C12_LazyIssuance ==
    [][/\ op' = "get" =>
            /\ raised' = NoRaise
            /\ returned' \in Range(queue')
            /\ ~completed(chinups'[returned'])
            /\ batches' = batches
       /\ batches' # batches => op' \in {"data", "response", "post"}]_vars

\* C13 as stated: ChinupBar.post with its default defer=False either
\* returns a resolved chinup, whose error if any is stored while
\* raise_exceptions is false, or raises the error the chinup resolved with
\* while raise_exceptions is true.
C13_NonDeferredIssuance ==
    [][op' = "post" =>
        IF raised' = NoRaise
        THEN /\ returned' # NoChinup
             /\ completed(chinups'[returned'])
             /\ chinups'[returned'].exception # None =>
                   ~chinups'[returned'].raise_exceptions
        ELSE /\ raised'.chinup # NoChinup
             /\ chinups'[raised'.chinup].raise_exceptions
             /\ raised'.type = chinups'[raised'.chinup].exception]_vars

\* A chinup that was cancelled before any batch carried it.
CancelledUnsent(c) ==
    chinups[c].exception = "ChinupCanceled" /\ c \notin SentChinups

\* C14 as stated: cancel() on a queued, unresolved chinup resolves it with
\* ChinupCanceled, and no later batch carries the chinup and no batch
\* response reaches it; cancel() on a chinup that is already resolved
\* changes nothing.
C14_Cancel ==
    [][/\ (op' = "cancel" /\ ~completed(chinups[target'])) =>
            /\ chinups'[target'].exception = "ChinupCanceled"
            /\ chinups'[target'].response = chinups[target'].response
       /\ (op' = "cancel" /\ completed(chinups[target'])) =>
            chinups'[target'] = chinups[target']
       /\ \A c \in Ids : CancelledUnsent(c) =>
            /\ c \notin Range(NewlySent)
            /\ op' # "set_response" =>
                  chinups'[c].response = chinups[c].response]_vars

\* Equality of two chinups as the specification words it: equal requests;
\* callbacks and completion states that match if either has a callback;
\* completion states that match if either is completed.
SymmetricEq(a, b) ==
    /\ RequestEqual(a, b)
    /\ (a.callback # None \/ b.callback # None) =>
          /\ a.callback = b.callback
          /\ completed_value(a) = completed_value(b)
    /\ (completed(a) \/ completed(b)) =>
          completed_value(a) = completed_value(b)

\* C18 as stated: a == b holds iff the requests are equal and callbacks and
\* completion states match as far as either chinup has them; a == b iff
\* b == a for every pair of chinups; and append with dedup never returns a
\* queued chinup whose callback is not the new chinup's.
C18_CallEquality ==
    [][/\ \A a, b \in 1..Len(chinups') :
            /\ Chinup_eq(chinups'[a], chinups'[b]) = SymmetricEq(chinups'[a], chinups'[b])
            /\ Chinup_eq(chinups'[a], chinups'[b]) = Chinup_eq(chinups'[b], chinups'[a])
       /\ (op' = "append" /\ workload = "mixed") =>
            \A b \in Requests :
                (IssueOf(b) /\ returned' <= Len(chinups)) =>
                    chinups[returned'].callback = b.callback]_vars

\* The response declares a limit that compares with the length of its data,
\* and the data is shorter.
BelowLimit(r) ==
    /\ limit_of(r) \in DOMAIN ToInt
    /\ r.data.t = "list"
    /\ Len(r.data.items) < ToInt[limit_of(r)]

\* The pagination guard as the specification words it: a next link, and not
\* a declared limit with less data than it.
Proceeds(r) == r.next # Absent /\ ~BelowLimit(r)

\* Chinup c is resolved by the step, with a response dict, and prefetches.
ResolvedWithPrefetch(c) ==
    /\ ~completed(chinups[c])
    /\ chinups'[c].response.kind = "dict"
    /\ chinups'[c].prefetch_next_page

\* C15 as stated: when a step resolves a chinup that prefetches its next
\* page, the chinup gets a next page iff its response has a next link and
\* does not declare a limit its data is below; the next page is then queued
\* and, unless the step iterates on, unresolved, and the guard raises no
\* error of the limit or of the data.
C15_PaginationGuard ==
    [][\A c \in Ids : ResolvedWithPrefetch(c) =>
        /\ chinups'[c].next_page # NoChinup <=> Proceeds(chinups'[c].response)
        /\ Proceeds(chinups'[c].response) =>
              /\ raised' \notin {Raise("ValueError", c), Raise("TypeError", c)}
              /\ chinups'[c].next_page \in Range(queue') \cup Range(NewlySent)
              /\ op' # "iter" =>
                    /\ chinups'[c].next_page \in Range(queue')
                    /\ ~completed(chinups'[chinups'[c].next_page])]_vars

\* The response is a dict whose next link points at server.php.
BogusLink(r) ==
    /\ r.kind = "dict"
    /\ r.next # Absent
    /\ r.next.url.path = "server.php"

\* C16: in every step, a chinup whose response has a next link that points
\* at server.php and that had no next page before the step has none after
\* it, whatever its data and limit and whichever operation ran, and no
\* chinup the step constructs asks for server.php.
C16_BadLinkSuppression ==
    [][/\ \A c \in 1..Len(chinups') :
            (/\ BogusLink(chinups'[c].response)
             /\ c \in Ids => chinups[c].next_page = NoChinup) =>
                chinups'[c].next_page = NoChinup
       /\ \A n \in (Len(chinups) + 1)..Len(chinups') :
            chinups'[n].request.path.path # "server.php"]_vars

\* C16's case: next_page() has run on a chinup that prefetches and whose
\* response has full data and a next link at server.php, and has returned
\* no chinup.
C16_Witness ==
    /\ op = "next_page"
    /\ target # NoChinup
    /\ BogusLink(chinups[target].response)
    /\ chinups[target].prefetch_next_page
    /\ Len(chinups[target].response.data.items) = 2
    /\ chinups[target].next_page = NoChinup
    /\ returned = NoChinup
    /\ raised = NoRaise

\* The response the remote end stores on chinup ch when it serves the cursor,
\* headers apart.
ServedPage(ch) ==
    [decode_and_promote(RawResponse(<<0, 0>>, CursorBody(ch.request, total))).response
        EXCEPT !.headers = <<0, 0>>]

\* Every chinup is unresolved or holds the page the cursor serves for its
\* request, and none holds an exception.
CursorOnly(chs) ==
    \A c \in 1..Len(chs) :
        /\ chs[c].exception = None
        /\ \/ chs[c].response.kind = "None"
           \/ [chs[c].response EXCEPT !.headers = <<0, 0>>] = ServedPage(chs[c])

\* The chinups of the chain of pages that starts at chinup c, in page order.
RECURSIVE PageChain(_, _)
PageChain(chs, c) ==
    IF c = NoChinup THEN << >> ELSE <<c>> \o PageChain(chs, chs[c].next_page)

\* The items of a cursor of n items, in their original order.
ItemsUpTo(n) == [i \in 1..n |-> i]

\* C17: list(chinup) on the first page of a cursor of total items, two to a
\* page, where every chinup so far is unresolved or holds a page of the
\* cursor, terminates without an error and has yielded items 1..total, each
\* once and in order; the chain it leaves has one chinup per page (and one
\* for the empty page that follows a full last page), every chinup of the
\* chain was sent exactly once, and the last one has no next page, so for 5
\* items there are 3 pages and 3 requests.
C17_PagedIteration ==
    [][(/\ op' = "iter"
        /\ workload = "paging"
        /\ after_of(chinups[target'].request) = 0
        /\ CursorOnly(chinups)) =>
            /\ raised' = NoRaise
            /\ yielded' = ItemsUpTo(total)
            /\ Len(PageChain(chinups', target')) = (total \div 2) + 1
            /\ \A i \in 1..Len(PageChain(chinups', target')) :
                 /\ Cardinality(PlacesOf(batches', PageChain(chinups', target')[i])) = 1
                 /\ data_of(chinups'[PageChain(chinups', target')[i]]) =
                        List(page_items([after |-> 2 * (i - 1),
                                         len |-> page_len(2 * (i - 1), total)]))
            /\ CursorOnly(chinups')]_vars

\* C17's case: list(chinup) has run on an unresolved first page of a cursor
\* of 5 items and has yielded the 5 items over 3 pages of sizes 2, 2, 1.
C17_Witness ==
    /\ op = "iter"
    /\ workload = "paging"
    /\ total = 5
    /\ yielded = <<1, 2, 3, 4, 5>>
    /\ Len(PageChain(chinups, target)) = 3
    /\ Len(batches) = 3
    /\ raised = NoRaise

\* Chinup c has its next page's chinup.
HasNextPage(chs, c) == c \in 1..Len(chs) /\ chs[c].next_page # NoChinup

\* A step keeps the next page every chinup already has.
NextPageKept ==
    \A c \in Ids : HasNextPage(chinups, c) =>
        chinups'[c].next_page = chinups[c].next_page

\* next_page() on a chinup that has its next page returns that chinup and
\* changes neither the queue nor any chinup nor what was sent.
NextPageCached ==
    (op' = "next_page" /\ HasNextPage(chinups, target')) =>
        /\ returned' = chinups[target'].next_page
        /\ queue' = queue
        /\ chinups' = chinups
        /\ batches' = batches

\* The next page n of chinup c has c's method, raise_exceptions, callback
\* and prefetch_next_page, no token and no data.
Inherits(chs, c, n) ==
    /\ chs[n].request.method = chs[c].request.method
    /\ chs[n].raise_exceptions = chs[c].raise_exceptions
    /\ chs[n].callback = chs[c].callback
    /\ chs[n].prefetch_next_page = chs[c].prefetch_next_page
    /\ chs[n].token = None
    /\ chs[n].request.data = DataNone

\* Every chinup that gets its next page in a step gets one that inherits
\* its settings.
NextPageInherits ==
    \A c \in 1..Len(chinups') :
        (HasNextPage(chinups', c) /\ ~HasNextPage(chinups, c)) =>
            Inherits(chinups', c, chinups'[c].next_page)

\* C19: across all operations a chinup's next page, once it has one, is
\* never replaced; next_page() on such a chinup returns the cached chinup
\* and leaves the queue unchanged; and the next page a chinup gets has the
\* chinup's method, raise_exceptions, callback and prefetch_next_page and
\* carries no token and no data.
C19_NextPageIdempotence ==
    [][NextPageKept /\ NextPageCached /\ NextPageInherits]_vars

\* C20 as stated: when list(chinup) has drained the pages of a cursor that
\* has items, list(chinup) on the same chinup right after it does not yield
\* the same items again.
C20_SinglePass ==
    [][(/\ passes' = 2
        /\ yielded # << >>) => yielded' # yielded]_vars

\* C20, amended: when list(chinup) has run to its end without an error,
\* list(chinup) on the same chinup right after it yields the same items in
\* the same order with no error, from the pages the chinups hold: it sends
\* no batch, constructs no chinup and changes neither a chinup nor the
\* queue.
C20_Replay ==
    [][passes' = 2 =>
          /\ yielded' = yielded
          /\ raised' = NoRaise
          /\ batches' = batches
          /\ chinups' = chinups
          /\ queue' = queue]_vars

\* C20's case: list(chinup) has run twice in a row on the first page of a
\* cursor of 5 items and has yielded the 5 items the second time.
C20_Witness ==
    /\ passes = 2
    /\ op = "iter"
    /\ total = 5
    /\ yielded = <<1, 2, 3, 4, 5>>
    /\ Len(PageChain(chinups, target)) = 3
    /\ Len(batches) = 3

====
